---------------------------- MODULE Spec2Model ----------------------------
(***************************************************************************)
(* apollo-io-mcp: the tool adapter of src/src/index.ts as a state machine.  *)
(* One invocation of the CallToolRequestSchema handler walks through        *)
(* dispatch, validate, map, invoke, (remote reply), summarize and, on a     *)
(* throw, the catch block.  JSON values are tagged records so that the      *)
(* schema checks and JavaScript truthiness can be computed.                 *)
(***************************************************************************)
EXTENDS Integers, Sequences, FiniteSets, TLC

(***************************************************************************)
(* Bounds of the model.                                                     *)
(***************************************************************************)
\* caller-supplied page numbers range over 0..MaxPage
MaxPage == 2
\* remote result lists (people, organizations, ...) hold 0..MaxResults entries
MaxResults == 6

(***************************************************************************)
(* JSON / JavaScript values.                                                *)
(***************************************************************************)
Undefined == [kind |-> "undefined"]
Null == [kind |-> "null"]
Str(s) == [kind |-> "string", val |-> s]
Num(n) == [kind |-> "number", val |-> n]
Bool(b) == [kind |-> "boolean", val |-> b]
Arr(q) == [kind |-> "array", val |-> q]
Obj(f) == [kind |-> "object", val |-> f]

EmptyObj == Obj(<<>>)

\* o.k  (only evaluated where o is not null/undefined)
Get(o, k) ==
    IF o.kind = "object" /\ k \in DOMAIN o.val THEN o.val[k] ELSE Undefined

\* property access on null or undefined throws a TypeError
AccessThrows(o) == o.kind \in {"null", "undefined"}

\* o?.k
OptGet(o, k) == IF AccessThrows(o) THEN Undefined ELSE Get(o, k)

\* JavaScript truthiness: undefined, null, "", 0 and false are falsy
Truthy(v) ==
    CASE v.kind \in {"undefined", "null"} -> FALSE
      [] v.kind = "string" -> v.val # ""
      [] v.kind = "number" -> v.val # 0
      [] v.kind = "boolean" -> v.val
      [] OTHER -> TRUE

\* a || b
OrElse(a, b) == IF Truthy(a) THEN a ELSE b

\* the object f with key k set to v
Put(f, k, v) == [x \in (DOMAIN f) \cup {k} |-> IF x = k THEN v ELSE f[x]]

\* JSON.stringify(v, null, 2): object members whose value is undefined are
\* dropped, undefined array elements become null, a top-level undefined
\* yields undefined.  The rendering is kept as the normalised value.
RECURSIVE Stringify(_)
Stringify(v) ==
    CASE v.kind = "object" ->
           LET keep == {k \in DOMAIN v.val : v.val[k].kind # "undefined"}
           IN  Obj([k \in keep |-> Stringify(v.val[k])])
      [] v.kind = "array" ->
           Arr([i \in 1..Len(v.val) |->
                  IF v.val[i].kind = "undefined" THEN Null
                  ELSE Stringify(v.val[i])])
      [] OTHER -> v

(***************************************************************************)
(* The tool catalog returned by the ListTools handler.                      *)
(***************************************************************************)
Tools ==
    << [name |-> "apollo_search_people",
        properties |-> {"keywords", "titles", "locations", "organization_ids",
                        "page", "per_page"},
        required |-> {}],
       [name |-> "apollo_enrich_person",
        properties |-> {"first_name", "last_name", "email", "domain",
                        "organization_name"},
        required |-> {}],
       [name |-> "apollo_enrich_organization",
        properties |-> {"domain"},
        required |-> {"domain"}],
       [name |-> "apollo_search_organizations",
        properties |-> {"keywords", "locations", "employee_ranges",
                        "page", "per_page"},
        required |-> {}],
       [name |-> "apollo_search_sequences",
        properties |-> {"name", "page", "per_page"},
        required |-> {}],
       [name |-> "apollo_get_email_accounts",
        properties |-> {},
        required |-> {}],
       [name |-> "apollo_get_email_message_activities",
        properties |-> {"message_id"},
        required |-> {"message_id"}] >>

ToolNames == {Tools[i].name : i \in 1..Len(Tools)}

ToolDef(n) == CHOOSE t \in {Tools[i] : i \in 1..Len(Tools)} : t.name = n

(***************************************************************************)
(* The zod schemas.  A schema is the sequence of its fields in declaration  *)
(* order; a field without default has dflt = Undefined.                     *)
(***************************************************************************)
Field(n, t, opt, d) == [name |-> n, type |-> t, optional |-> opt, dflt |-> d]

SearchPeopleSchema ==
    << Field("keywords", "string", TRUE, Undefined),
       Field("titles", "array", TRUE, Undefined),
       Field("locations", "array", TRUE, Undefined),
       Field("organization_ids", "array", TRUE, Undefined),
       Field("page", "number", TRUE, Num(1)),
       Field("per_page", "number", TRUE, Num(10)) >>

EnrichPersonSchema ==
    << Field("first_name", "string", TRUE, Undefined),
       Field("last_name", "string", TRUE, Undefined),
       Field("email", "string", TRUE, Undefined),
       Field("domain", "string", TRUE, Undefined),
       Field("organization_name", "string", TRUE, Undefined) >>

\* variant: domain declared optional
EnrichOrganizationSchema_Optional ==
    << Field("domain", "string", TRUE, Undefined) >>

EnrichOrganizationSchema ==
    << Field("domain", "string", FALSE, Undefined) >>

SearchOrganizationsSchema ==
    << Field("keywords", "string", TRUE, Undefined),
       Field("locations", "array", TRUE, Undefined),
       Field("employee_ranges", "array", TRUE, Undefined),
       Field("page", "number", TRUE, Num(1)),
       Field("per_page", "number", TRUE, Num(10)) >>

\* variant: per_page defaulting to 10 as in the other search schemas
SearchSequencesSchema_Default10 ==
    << Field("name", "string", TRUE, Undefined),
       Field("page", "number", TRUE, Num(1)),
       Field("per_page", "number", TRUE, Num(10)) >>

SearchSequencesSchema ==
    << Field("name", "string", TRUE, Undefined),
       Field("page", "number", TRUE, Num(1)),
       Field("per_page", "number", TRUE, Num(25)) >>

GetEmailMessageActivitiesSchema ==
    << Field("message_id", "string", FALSE, Undefined) >>

\* the schema the handler's switch applies to each tool name; the
\* apollo_get_email_accounts case parses nothing
HasSchema(n) == n \in ToolNames \ {"apollo_get_email_accounts"}

SchemaOf(n) ==
    CASE n = "apollo_search_people" -> SearchPeopleSchema
      [] n = "apollo_enrich_person" -> EnrichPersonSchema
      [] n = "apollo_enrich_organization" -> EnrichOrganizationSchema
      [] n = "apollo_search_organizations" -> SearchOrganizationsSchema
      [] n = "apollo_search_sequences" -> SearchSequencesSchema
      [] n = "apollo_get_email_message_activities" ->
           GetEmailMessageActivitiesSchema
      [] OTHER -> << >>

(***************************************************************************)
(* schema.parse(args): zod's object parsing.                                *)
(***************************************************************************)
\* z.string() / z.number() / z.array(z.string()) accept v
TypeOk(t, v) ==
    CASE t = "array" ->
           /\ v.kind = "array"
           /\ \A i \in 1..Len(v.val) : v.val[i].kind = "string"
      [] OTHER -> v.kind = t

\* the value a field parses to: the default replaces an undefined input
FieldInput(f, a) ==
    LET raw == Get(a, f.name)
    IN  IF raw.kind = "undefined" THEN f.dflt ELSE raw

\* the issue message of a field, "" when the field parses
FieldIssue(f, a) ==
    LET v == FieldInput(f, a)
    IN  IF v.kind = "undefined"
        THEN IF f.optional THEN "" ELSE "Required"
        ELSE IF TypeOk(f.type, v) THEN ""
             ELSE "Expected " \o f.type \o ", received " \o v.kind

RECURSIVE IssuesFrom(_, _, _)
IssuesFrom(schema, a, i) ==
    IF i > Len(schema) THEN << >>
    ELSE LET m == FieldIssue(schema[i], a)
         IN  (IF m = "" THEN << >> ELSE << m >>) \o IssuesFrom(schema, a, i + 1)

\* the messages of the ZodError parse throws, << >> when it returns
ParseIssues(schema, a) ==
    CASE a.kind = "undefined" -> << "Required" >>
      [] a.kind # "object" -> << "Expected object, received " \o a.kind >>
      [] OTHER -> IssuesFrom(schema, a, 1)

\* the value parse returns: the schema's keys only (unknown keys are
\* stripped), defaults applied, absent optional keys left out
ParseValue(schema, a) ==
    LET fields == {schema[i] : i \in 1..Len(schema)}
        present == {f \in fields : FieldInput(f, a).kind # "undefined"}
    IN  Obj([k \in {f.name : f \in present} |->
               FieldInput(CHOOSE f \in present : f.name = k, a)])


(***************************************************************************)
(* Thrown errors.  status = 0 stands for an error without a response.      *)
(***************************************************************************)
Err(c, code, m, st, iss) ==
    [class |-> c, code |-> code, message |-> m, status |-> st, issues |-> iss]

\* new McpError(code, message)
McpError(code, m) == Err("McpError", code, m, 0, << >>)

\* the ZodError thrown by schema.parse
ZodError(iss) == Err("ZodError", "", "zod", 0, iss)

\* the error axios rejects with on a non-2xx response
AxiosError(st) ==
    Err("AxiosError", "", "Request failed with status code " \o ToString(st),
        st, << >>)

\* a rejection without a response (network failure), message m
NetworkError(m) == Err("Error", "", m, 0, << >>)

\* reading a property of null / undefined
TypeError == Err("TypeError", "", "Cannot read properties of null", 0, << >>)

\* calling .map / .slice / .filter on a value that has none
NotAFunction == Err("TypeError", "", "is not a function", 0, << >>)

NoError == Err("", "", "", 0, << >>)

RECURSIVE JoinFrom(_, _)
JoinFrom(q, i) ==
    IF i > Len(q) THEN ""
    ELSE IF i = Len(q) THEN q[i]
    ELSE q[i] \o ", " \o JoinFrom(q, i + 1)

\* q.join(", ")
Join(q) == JoinFrom(q, 1)

(***************************************************************************)
(* Map: the request parameters each case of the switch builds from the      *)
(* validated arguments.                                                     *)
(***************************************************************************)
\* variant: the copy without the presence test
CopyIfTruthy_Always(p, to, v, from) == Put(p, to, Get(v, from))

\* if (v[from]) params[to] = v[from]
CopyIfTruthy(p, to, v, from) ==
    IF Truthy(Get(v, from)) THEN Put(p, to, Get(v, from)) ELSE p

\* const params = { page: validated.page, per_page: validated.per_page }
\* (a member whose value is undefined is not serialised into the body)
PageParams(v) ==
    LET p0 == IF Get(v, "page").kind = "undefined" THEN << >>
              ELSE Put(<< >>, "page", Get(v, "page"))
    IN  IF Get(v, "per_page").kind = "undefined" THEN p0
        ELSE Put(p0, "per_page", Get(v, "per_page"))

SearchPeopleParams(v) ==
    LET p0 == PageParams(v)
        p1 == CopyIfTruthy(p0, "q_keywords", v, "keywords")
        p2 == CopyIfTruthy(p1, "person_titles", v, "titles")
        p3 == CopyIfTruthy(p2, "person_locations", v, "locations")
        p4 == CopyIfTruthy(p3, "organization_ids", v, "organization_ids")
    IN  Obj(p4)

EnrichPersonParams(v) ==
    LET p1 == CopyIfTruthy(<< >>, "first_name", v, "first_name")
        p2 == CopyIfTruthy(p1, "last_name", v, "last_name")
        p3 == CopyIfTruthy(p2, "email", v, "email")
        p4 == CopyIfTruthy(p3, "domain", v, "domain")
        p5 == CopyIfTruthy(p4, "organization_name", v, "organization_name")
    IN  Obj(p5)

\* const { domain } = parse(args); client.enrichOrganization(domain)
EnrichOrganizationParams(v) == Get(v, "domain")

SearchOrganizationsParams(v) ==
    LET p0 == PageParams(v)
        p1 == CopyIfTruthy(p0, "q_keywords", v, "keywords")
        p2 == CopyIfTruthy(p1, "organization_locations", v, "locations")
        p3 == CopyIfTruthy(p2, "organization_num_employees_ranges", v,
                           "employee_ranges")
    IN  Obj(p3)

SearchSequencesParams(v) ==
    LET p0 == PageParams(v)
        p1 == CopyIfTruthy(p0, "name", v, "name")
    IN  Obj(p1)

\* const { message_id } = parse(args)
GetEmailMessageActivitiesParams(v) == Get(v, "message_id")

ParamsOf(n, v) ==
    CASE n = "apollo_search_people" -> SearchPeopleParams(v)
      [] n = "apollo_enrich_person" -> EnrichPersonParams(v)
      [] n = "apollo_enrich_organization" -> EnrichOrganizationParams(v)
      [] n = "apollo_search_organizations" -> SearchOrganizationsParams(v)
      [] n = "apollo_search_sequences" -> SearchSequencesParams(v)
      [] n = "apollo_get_email_message_activities" ->
           GetEmailMessageActivitiesParams(v)
      [] OTHER -> Undefined

(***************************************************************************)
(* ApolloClient: the HTTP request each operation issues.                    *)
(***************************************************************************)
Http(m, path, body) == [method |-> m, path |-> path, body |-> body]

searchPeople(p) == Http("POST", "/mixed_people/search", p)
enrichPerson(p) == Http("POST", "/people/match", p)
enrichOrganization(domain) ==
    Http("POST", "/organizations/enrich", Obj(Put(<< >>, "domain", domain)))
searchOrganizations(p) == Http("POST", "/mixed_companies/search", p)
searchSequences(p) ==
    Http("POST", "/emailer_campaigns/search", OrElse(p, EmptyObj))
getEmailAccounts == Http("GET", "/email_accounts", Undefined)
getEmailMessageActivities(messageId) ==
    Http("GET", "/emailer_messages/" \o messageId.val \o "/activities",
         Undefined)

\* the client call of each case of the switch
ClientCall(n, p) ==
    CASE n = "apollo_search_people" -> searchPeople(p)
      [] n = "apollo_enrich_person" -> enrichPerson(p)
      [] n = "apollo_enrich_organization" -> enrichOrganization(p)
      [] n = "apollo_search_organizations" -> searchOrganizations(p)
      [] n = "apollo_search_sequences" -> searchSequences(p)
      [] n = "apollo_get_email_accounts" -> getEmailAccounts
      [] OTHER -> getEmailMessageActivities(p)

(***************************************************************************)
(* Summarize: the text each case of the switch returns.  A case either      *)
(* returns a text or throws.                                                *)
(***************************************************************************)
Section(h, j) == [header |-> h, json |-> j]

\* the text block: a first line and the JSON sections that follow it
Text(line, sections) == [line |-> line, sections |-> sections]

Returned(t) == [kind |-> "return", text |-> t, error |-> NoError]
Threw(e) == [kind |-> "throw", text |-> Text("", << >>), error |-> e]

\* `${v}`
Render(v) ==
    CASE v.kind = "number" -> ToString(v.val)
      [] v.kind = "string" -> v.val
      [] OTHER -> v.kind

\* q.slice(0, n)
Slice(q, n) == SubSeq(q, 1, IF Len(q) < n THEN Len(q) ELSE n)

\* variant: one of city and state is enough for the "city, state" form
Location_Either(x) ==
    IF Truthy(Get(x, "city")) \/ Truthy(Get(x, "state"))
    THEN Str(Render(Get(x, "city")) \o ", " \o Render(Get(x, "state")))
    ELSE Get(x, "country")

\* x.city && x.state ? `${x.city}, ${x.state}` : x.country
Location(x) ==
    IF Truthy(Get(x, "city")) /\ Truthy(Get(x, "state"))
    THEN Str(Render(Get(x, "city")) \o ", " \o Render(Get(x, "state")))
    ELSE Get(x, "country")

\* result.<key> || []
ListOf(r, key) == OrElse(Get(r, key), Arr(<< >>))

\* list.map(e => e.<field> ...) throws: the list has no map, or an entry is
\* null / undefined
MapThrows(list) ==
    \/ list.kind # "array"
    \/ \E i \in 1..Len(list.val) : AccessThrows(list.val[i])

MapError(list) == IF list.kind # "array" THEN NotAFunction ELSE TypeError

PersonSummary(p) ==
    Obj([k \in {"name", "title", "company", "location", "email", "linkedin"} |->
          CASE k = "name" -> Get(p, "name")
            [] k = "title" -> Get(p, "title")
            [] k = "company" -> OptGet(Get(p, "organization"), "name")
            [] k = "location" -> Location(p)
            [] k = "email" -> Get(p, "email")
            [] OTHER -> Get(p, "linkedin_url")])

\* people.slice(0, 5): the number of entries a search summary keeps
TopResults == 5

\* variant: the "Full data" section carries only the summarised entries
SearchPeopleResponse_TruncatedFull(r) ==
    IF AccessThrows(r) THEN Threw(TypeError)
    ELSE LET people == ListOf(r, "people")
         IN  IF MapThrows(people) THEN Threw(MapError(people))
             ELSE LET top == Slice(people.val, TopResults)
                      summary == Arr([i \in 1..Len(top) |-> PersonSummary(top[i])])
                      total == OrElse(OptGet(Get(r, "pagination"), "total_entries"),
                                      Num(0))
                  IN  Returned(Text("Found " \o Render(total) \o " people",
                        << Section("Top Results:", Stringify(summary)),
                           Section("Full data:",
                                   Stringify(Obj(Put(r.val, "people", Arr(top)))))
                        >>))

SearchPeopleResponse(r) ==
    IF AccessThrows(r) THEN Threw(TypeError)
    ELSE LET people == ListOf(r, "people")
         IN  IF MapThrows(people) THEN Threw(MapError(people))
             ELSE LET top == Slice(people.val, TopResults)
                      summary == Arr([i \in 1..Len(top) |-> PersonSummary(top[i])])
                      total == OrElse(OptGet(Get(r, "pagination"), "total_entries"),
                                      Num(0))
                  IN  Returned(Text("Found " \o Render(total) \o " people",
                        << Section("Top Results:", Stringify(summary)),
                           Section("Full data:", Stringify(r)) >>))

\* person.phone_numbers?.[0]?.sanitized_number
FirstPhone(person) ==
    LET pn == Get(person, "phone_numbers")
        first == IF pn.kind = "array" /\ Len(pn.val) > 0 THEN pn.val[1]
                 ELSE Undefined
    IN  OptGet(first, "sanitized_number")

EnrichPersonResponse(r) ==
    IF AccessThrows(r) THEN Threw(TypeError)
    ELSE LET person == Get(r, "person")
         IN  IF ~Truthy(person)
             THEN Returned(Text("No person found with the provided information.",
                                << >>))
             ELSE LET summary ==
                        Obj([k \in {"name", "title", "company", "email", "phone",
                                    "linkedin", "location"} |->
                              CASE k = "name" -> Get(person, "name")
                                [] k = "title" -> Get(person, "title")
                                [] k = "company" ->
                                     OptGet(Get(person, "organization"), "name")
                                [] k = "email" -> Get(person, "email")
                                [] k = "phone" -> FirstPhone(person)
                                [] k = "linkedin" -> Get(person, "linkedin_url")
                                [] OTHER -> Location(person)])
                  IN  Returned(Text("Person Enrichment:",
                        << Section("", Stringify(summary)),
                           Section("Full data:", Stringify(r)) >>))

\* current_technologies?.slice(0, 10): the cap on summarised technologies
TechCap == 10

\* variant: the technologies are copied without a cap
Technologies_NoCap(org) ==
    LET t == Get(org, "current_technologies")
    IN  IF AccessThrows(t) THEN Undefined ELSE t

\* org.current_technologies?.slice(0, 10)
Technologies(org) ==
    LET t == Get(org, "current_technologies")
    IN  IF AccessThrows(t) THEN Undefined ELSE Arr(Slice(t.val, TechCap))

\* variant: a missing organization is thrown instead of returned
EnrichOrganizationResponse_NotFoundThrows(r) ==
    IF AccessThrows(r) THEN Threw(TypeError)
    ELSE IF ~Truthy(Get(r, "organization"))
    THEN Threw(NetworkError("No organization found with the provided domain."))
    ELSE Returned(Text("Organization Enrichment:",
           << Section("", Stringify(Get(r, "organization"))),
              Section("Full data:", Stringify(r)) >>))

EnrichOrganizationResponse(r) ==
    IF AccessThrows(r) THEN Threw(TypeError)
    ELSE LET org == Get(r, "organization")
         IN  IF ~Truthy(org)
             THEN Returned(Text("No organization found with the provided domain.",
                                << >>))
             ELSE IF Get(org, "current_technologies").kind
                       \notin {"array", "undefined", "null"}
             THEN Threw(NotAFunction)
             ELSE LET summary ==
                        Obj([k \in {"name", "domain", "industry", "employees",
                                    "location", "description", "founded",
                                    "linkedin", "technologies"} |->
                              CASE k = "name" -> Get(org, "name")
                                [] k = "domain" -> Get(org, "primary_domain")
                                [] k = "industry" -> Get(org, "industry")
                                [] k = "employees" ->
                                     Get(org, "estimated_num_employees")
                                [] k = "location" -> Location(org)
                                [] k = "description" ->
                                     Get(org, "short_description")
                                [] k = "founded" -> Get(org, "founded_year")
                                [] k = "linkedin" -> Get(org, "linkedin_url")
                                [] OTHER -> Technologies(org)])
                  IN  Returned(Text("Organization Enrichment:",
                        << Section("", Stringify(summary)),
                           Section("Full data:", Stringify(r)) >>))

OrganizationSummary(o) ==
    Obj([k \in {"name", "domain", "industry", "employees", "location"} |->
          CASE k = "name" -> Get(o, "name")
            [] k = "domain" -> Get(o, "primary_domain")
            [] k = "industry" -> Get(o, "industry")
            [] k = "employees" -> Get(o, "estimated_num_employees")
            [] OTHER -> Location(o)])

\* variant: the count line counts the results of the payload
SearchOrganizationsResponse_CountReturned(r) ==
    IF AccessThrows(r) THEN Threw(TypeError)
    ELSE LET orgs == ListOf(r, "organizations")
         IN  IF MapThrows(orgs) THEN Threw(MapError(orgs))
             ELSE LET top == Slice(orgs.val, TopResults)
                      summary ==
                        Arr([i \in 1..Len(top) |-> OrganizationSummary(top[i])])
                  IN  Returned(Text("Found " \o ToString(Len(orgs.val))
                                      \o " organizations",
                        << Section("Top Results:", Stringify(summary)),
                           Section("Full data:", Stringify(r)) >>))

SearchOrganizationsResponse(r) ==
    IF AccessThrows(r) THEN Threw(TypeError)
    ELSE LET orgs == ListOf(r, "organizations")
         IN  IF MapThrows(orgs) THEN Threw(MapError(orgs))
             ELSE LET top == Slice(orgs.val, TopResults)
                      summary ==
                        Arr([i \in 1..Len(top) |-> OrganizationSummary(top[i])])
                      total == OrElse(OptGet(Get(r, "pagination"), "total_entries"),
                                      Num(0))
                  IN  Returned(Text("Found " \o Render(total) \o " organizations",
                        << Section("Top Results:", Stringify(summary)),
                           Section("Full data:", Stringify(r)) >>))

SequenceSummary(q) ==
    Obj([k \in {"id", "name", "active", "num_steps", "stats"} |->
          CASE k = "stats" ->
                 Obj([j \in {"sent", "bounced", "replied", "interested",
                             "opt_out"} |->
                       CASE j = "sent" -> Get(q, "num_contacted_people")
                         [] j = "bounced" -> Get(q, "num_bounced_people")
                         [] j = "replied" -> Get(q, "num_replied_people")
                         [] j = "interested" -> Get(q, "num_interested_people")
                         [] OTHER -> Get(q, "num_opt_out_people")])
            [] OTHER -> Get(q, k)])

SearchSequencesResponse(r) ==
    IF AccessThrows(r) THEN Threw(TypeError)
    ELSE LET sequences == ListOf(r, "emailer_campaigns")
         IN  IF MapThrows(sequences) THEN Threw(MapError(sequences))
             ELSE LET summary ==
                        Arr([i \in 1..Len(sequences.val) |->
                               SequenceSummary(sequences.val[i])])
                  IN  Returned(Text("Found " \o ToString(Len(sequences.val))
                                      \o " sequences",
                        << Section("Summary:", Stringify(summary)),
                           Section("Full data:", Stringify(r)) >>))

AccountSummary(a) ==
    Obj([k \in {"id", "email", "active", "type"} |-> Get(a, k)])

GetEmailAccountsResponse(r) ==
    IF AccessThrows(r) THEN Threw(TypeError)
    ELSE LET accounts == ListOf(r, "email_accounts")
         IN  IF MapThrows(accounts) THEN Threw(MapError(accounts))
             ELSE LET summary ==
                        Arr([i \in 1..Len(accounts.val) |->
                               AccountSummary(accounts.val[i])])
                  IN  Returned(Text("Found " \o ToString(Len(accounts.val))
                                      \o " email accounts",
                        << Section("Accounts:", Stringify(summary)),
                           Section("Full data:", Stringify(r)) >>))

\* variant: every touch is counted, whatever its type
CountType_Any(q, t) == Len(q)

\* activities.filter(a => a.touch_type === t).length
CountType(q, t) ==
    Cardinality({i \in 1..Len(q) : Get(q[i], "touch_type") = Str(t)})

GetEmailMessageActivitiesResponse(r, message_id) ==
    IF AccessThrows(r) THEN Threw(TypeError)
    ELSE LET activities == ListOf(r, "emailer_touches")
         IN  IF MapThrows(activities) THEN Threw(MapError(activities))
             ELSE LET q == activities.val
                      summary ==
                        Obj([k \in {"message_id", "total_activities", "opens",
                                    "clicks", "replies", "activities"} |->
                              CASE k = "message_id" -> message_id
                                [] k = "total_activities" -> Num(Len(q))
                                [] k = "opens" -> Num(CountType(q, "opened"))
                                [] k = "clicks" -> Num(CountType(q, "clicked"))
                                [] k = "replies" -> Num(CountType(q, "replied"))
                                [] OTHER ->
                                     Arr([i \in 1..Len(q) |->
                                       Obj([j \in {"type", "created_at",
                                                   "user_agent"} |->
                                             IF j = "type"
                                             THEN Get(q[i], "touch_type")
                                             ELSE Get(q[i], j)])])])
                  IN  Returned(Text("Email Message Activities:",
                        << Section("", Stringify(summary)),
                           Section("Full data:", Stringify(r)) >>))

\* the summarising tail of each case of the switch; p is the value the case
\* passed to the client
Summarise(n, r, p) ==
    CASE n = "apollo_search_people" -> SearchPeopleResponse(r)
      [] n = "apollo_enrich_person" -> EnrichPersonResponse(r)
      [] n = "apollo_enrich_organization" -> EnrichOrganizationResponse(r)
      [] n = "apollo_search_organizations" -> SearchOrganizationsResponse(r)
      [] n = "apollo_search_sequences" -> SearchSequencesResponse(r)
      [] n = "apollo_get_email_accounts" -> GetEmailAccountsResponse(r)
      [] OTHER -> GetEmailMessageActivitiesResponse(r, p)

(***************************************************************************)
(* The catch block of the call-tool handler: the McpError it rethrows for   *)
(* the caught error e.                                                      *)
(***************************************************************************)
\* variant: the 401 test is missing
CatchBlock_No401(e) ==
    IF e.class = "ZodError"
    THEN McpError("InvalidParams", "Invalid parameters: " \o Join(e.issues))
    ELSE IF e.status = 429
    THEN McpError("InternalError",
           "Apollo API rate limit exceeded. Please wait and try again.")
    ELSE McpError("InternalError",
           IF e.message # "" THEN e.message ELSE "An unexpected error occurred")

\* variant: the last branch drops the underlying message
CatchBlock_FallbackOnly(e) ==
    IF e.class = "ZodError"
    THEN McpError("InvalidParams", "Invalid parameters: " \o Join(e.issues))
    ELSE IF e.status = 401
    THEN McpError("InvalidRequest",
           "Invalid Apollo API key. Check your APOLLO_API_KEY environment variable.")
    ELSE IF e.status = 429
    THEN McpError("InternalError",
           "Apollo API rate limit exceeded. Please wait and try again.")
    ELSE McpError("InternalError", "An unexpected error occurred")

CatchBlock(e) ==
    IF e.class = "ZodError"
    THEN McpError("InvalidParams", "Invalid parameters: " \o Join(e.issues))
    ELSE IF e.status = 401
    THEN McpError("InvalidRequest",
           "Invalid Apollo API key. Check your APOLLO_API_KEY environment variable.")
    ELSE IF e.status = 429
    THEN McpError("InternalError",
           "Apollo API rate limit exceeded. Please wait and try again.")
    ELSE McpError("InternalError",
           IF e.message # "" THEN e.message ELSE "An unexpected error occurred")

(***************************************************************************)
(* Inputs: the requests a caller may send and the replies of the remote API.*)
(***************************************************************************)
\* the object of the members of f that are not undefined
Prune(f) == Obj([k \in {x \in DOMAIN f : f[x].kind # "undefined"} |-> f[k]])

PageValues == {Undefined} \cup {Num(i) : i \in 0..MaxPage}

ArgsFor(n) ==
    CASE n = "apollo_search_people" ->
           {Undefined} \cup
           {Prune([keywords |-> k, titles |-> t, locations |-> l,
                   organization_ids |-> o, page |-> pg, per_page |-> pp]) :
              k \in {Undefined, Str(""), Str("cto"), Num(7)},
              t \in {Undefined, Arr(<< Str("ceo"), Str("cfo") >>)},
              l \in {Undefined, Arr(<< >>)},
              o \in {Undefined, Arr(<< Str("o1") >>)},
              pg \in PageValues,
              pp \in {Undefined, Num(50)}}
      [] n = "apollo_enrich_person" ->
           {Undefined} \cup
           {Prune([first_name |-> f, last_name |-> l, email |-> e,
                   domain |-> d, organization_name |-> o]) :
              f \in {Undefined, Str("ann")},
              l \in {Undefined, Str("lee")},
              e \in {Undefined, Str(""), Str("x@y.com"), Num(7)},
              d \in {Undefined, Str(""), Str("y.com")},
              o \in {Undefined, Str("acme")}}
      [] n = "apollo_enrich_organization" ->
           {Undefined} \cup
           {Prune([domain |-> d, extra |-> x]) :
              d \in {Undefined, Null, Num(7), Str(""), Str("apollo.io"),
                     Str("sub.example.com"), Str("not a domain")},
              x \in {Undefined, Str("ignored")}}
      [] n = "apollo_search_organizations" ->
           {Undefined} \cup
           {Prune([keywords |-> k, locations |-> l, employee_ranges |-> r,
                   page |-> pg, per_page |-> pp]) :
              k \in {Undefined, Str(""), Str("saas")},
              l \in {Undefined, Arr(<< Str("sf") >>)},
              r \in {Undefined, Arr(<< Str("1-10"), Str("11-50") >>), Str("1-10")},
              pg \in PageValues,
              pp \in {Undefined, Num(25)}}
      [] n = "apollo_search_sequences" ->
           {Undefined} \cup
           {Prune([name |-> k, page |-> pg, per_page |-> pp]) :
              k \in {Undefined, Str(""), Str("q4"), Num(7)},
              pg \in PageValues,
              pp \in {Undefined, Num(0), Num(50), Str("50")}}
      [] n = "apollo_get_email_message_activities" ->
           {Undefined} \cup
           {Prune([message_id |-> m]) :
              m \in {Undefined, Num(7), Str(""), Str("m1")}}
      [] OTHER ->
           {Undefined, EmptyObj, Obj([extra |-> Str("ignored")])}

\* names a caller may ask for: the catalog's and two that are not in it
UnknownNames == {"apollo_delete_everything", ""}
RequestNames == ToolNames \cup UnknownNames

\* the i-th person / organization of a remote payload
PersonAt(i) ==
    CASE i % 3 = 1 ->
           Obj([name |-> Str("p" \o ToString(i)), title |-> Str("CTO"),
                organization |-> Obj([name |-> Str("Test Corp")]),
                city |-> Str("San Francisco"), state |-> Str("California"),
                country |-> Str("United States"),
                email |-> Str("p@test.com"),
                linkedin_url |-> Str("https://linkedin.com/in/p"),
                phone_numbers |->
                  Arr(<< Obj([sanitized_number |-> Str("+1555")]) >>),
                id |-> Str("id" \o ToString(i))])
      [] i % 3 = 2 ->
           Obj([name |-> Str("p" \o ToString(i)), city |-> Str("Paris"),
                country |-> Str("France"), phone_numbers |-> Arr(<< >>)])
      [] OTHER ->
           Obj([name |-> Str("p" \o ToString(i)), organization |-> Null])

\* technology lists hold 0..MaxTech entries
MaxTech == 11

TechList(n) ==
    Arr([i \in 1..n |-> Obj([uid |-> Str("t" \o ToString(i))])])

OrganizationAt(i) ==
    CASE i % 3 = 1 ->
           Obj([name |-> Str("o" \o ToString(i)),
                primary_domain |-> Str("apollo.io"),
                industry |-> Str("software"),
                estimated_num_employees |-> Num(800),
                city |-> Str("San Francisco"), state |-> Str("California"),
                country |-> Str("United States"),
                short_description |-> Str("sales platform"),
                founded_year |-> Num(2015),
                linkedin_url |-> Str("https://linkedin.com/company/o"),
                funding |-> Str("series d")])
      [] i % 3 = 2 ->
           Obj([name |-> Str("o" \o ToString(i)), state |-> Str("Texas"),
                country |-> Str("United States")])
      [] OTHER ->
           Obj([name |-> Str("o" \o ToString(i))])

\* entities with a city, state and country that are set, blank, null or
\* absent
Located(city, state, country) ==
    Prune([name |-> Str("e"), city |-> city, state |-> state,
           country |-> country])

Placements ==
    {Located(c, st, co) : c \in {Null, Str(""), Str("Austin")},
                          st \in {Undefined, Str(""), Str("Texas")},
                          co \in {Undefined, Str("United States")}}

SequenceAt(i) ==
    Obj([id |-> Str("s" \o ToString(i)), name |-> Str("seq"),
         active |-> Bool(i % 2 = 1), num_steps |-> Num(i),
         num_contacted_people |-> Num(10 * i), num_bounced_people |-> Num(1),
         num_replied_people |-> Num(2), num_interested_people |-> Num(0),
         num_opt_out_people |-> Num(0), created_at |-> Str("2024-01-01")])

AccountAt(i) ==
    Obj([id |-> Str("a" \o ToString(i)), email |-> Str("me@test.com"),
         active |-> Bool(i % 2 = 1), type |-> Str("gmail"),
         signature |-> Str("--")])

\* message activity lists hold 0..MaxTouches entries
MaxTouches == 3

TouchTypes == {"opened", "clicked", "replied", "bounced", "Opened"}

TouchOf(t) ==
    Obj([touch_type |-> Str(t), created_at |-> Str("2024-01-01"),
         user_agent |-> Str("ua"), id |-> Str("touch")])

TouchLists ==
    UNION {[1..n -> {TouchOf(t) : t \in TouchTypes}] : n \in 0..MaxTouches}

\* the lists a remote payload may carry under a list key: absent, a list of
\* 0..MaxResults entries, and two unexpected shapes
EntryAt(what, i) ==
    CASE what = "person" -> PersonAt(i)
      [] what = "organization" -> OrganizationAt(i)
      [] what = "sequence" -> SequenceAt(i)
      [] OTHER -> AccountAt(i)

ListsOf(what) ==
    {Undefined, Str("unexpected"), Arr(<< EntryAt(what, 1), Null >>)}
      \cup {Arr([i \in 1..n |-> EntryAt(what, i)]) : n \in 0..MaxResults}

Paginations ==
    {Undefined, Obj([page |-> Num(1)]),
     Obj([page |-> Num(1), total_entries |-> Num(0)]),
     Obj([page |-> Num(1), total_entries |-> Num(42)])}

\* the JSON bodies the remote API may answer a tool's request with
PayloadsFor(n) ==
    {Null} \cup
    CASE n = "apollo_search_people" ->
           {Prune([people |-> l, pagination |-> pg,
                   breadcrumbs |-> Arr(<< >>)]) :
              l \in ListsOf("person"), pg \in Paginations}
      [] n = "apollo_enrich_person" ->
           {EmptyObj, Obj([person |-> Null])}
             \cup {Obj([person |-> PersonAt(i), status |-> Str("ok")]) :
                     i \in 1..3}
             \cup {Obj([person |-> e]) : e \in Placements}
      [] n = "apollo_enrich_organization" ->
           {EmptyObj, Obj([organization |-> Null]),
            Obj([organization |->
                   Obj([name |-> Str("odd"),
                        current_technologies |-> Obj([uid |-> Str("t")])])])}
             \cup {Obj([organization |-> OrganizationAt(i)]) : i \in 1..3}
             \cup {Obj([organization |-> e]) : e \in Placements}
             \cup {Obj([organization |->
                          Obj(Put(OrganizationAt(1).val, "current_technologies",
                                  TechList(k)))]) : k \in 0..MaxTech}
      [] n = "apollo_search_organizations" ->
           {Prune([organizations |-> l, pagination |-> pg,
                   breadcrumbs |-> Arr(<< >>)]) :
              l \in ListsOf("organization"), pg \in Paginations}
      [] n = "apollo_search_sequences" ->
           {Prune([emailer_campaigns |-> l, pagination |-> Obj([page |-> Num(1)])]) :
              l \in ListsOf("sequence")}
      [] n = "apollo_get_email_accounts" ->
           {Prune([email_accounts |-> l]) : l \in ListsOf("account")}
      [] OTHER ->
           {EmptyObj, Obj([emailer_touches |-> Str("unexpected")])}
             \cup {Obj([emailer_touches |-> Arr(q), num_touches |-> Num(Len(q))]) :
                     q \in TouchLists}

\* the ways a remote call may fail: a non-2xx response, or no response
RemoteFailures ==
    {AxiosError(401), AxiosError(429), AxiosError(500), AxiosError(404),
     NetworkError("boom"), NetworkError("")}

(***************************************************************************)
(* State.  Every variable but listed is indexed by the invocation it        *)
(* belongs to: the handler keeps all of it in locals of one call.           *)
(***************************************************************************)
VARIABLES
    pc,         \* where the invocation stands in the handler
    request,    \* request.params: [name, arguments]
    validated,  \* what schema.parse returned
    params,     \* what the case passes to the client
    sent,       \* the HTTP requests the invocation has issued, in order
    result,     \* the body the remote API answered with
    thrown,     \* the error the try block threw
    outcome,    \* what the handler returned or rethrew
    steps,      \* the steps the invocation has taken, in order
    listed      \* the catalog the ListTools handler returned last

vars == << pc, request, validated, params, sent, result, thrown, outcome,
           steps, listed >>

\* the invocations that may be in flight
Invocations == {"c1", "c2"}

\* the host delivers one invocation at a time
Sequential == {"c1"}

NoRequest == [name |-> "", arguments |-> Undefined]
NoOutcome == [kind |-> "none", text |-> Text("", << >>), error |-> NoError]

Init ==
    /\ pc = [s \in Invocations |-> "idle"]
    /\ request = [s \in Invocations |-> NoRequest]
    /\ validated = [s \in Invocations |-> Undefined]
    /\ params = [s \in Invocations |-> Undefined]
    /\ sent = [s \in Invocations |-> << >>]
    /\ result = [s \in Invocations |-> Undefined]
    /\ thrown = [s \in Invocations |-> NoError]
    /\ outcome = [s \in Invocations |-> NoOutcome]
    /\ steps = [s \in Invocations |-> << >>]
    /\ listed = << >>

\* server.setRequestHandler(ListToolsRequestSchema, ...)
ListTools ==
    /\ listed' = Tools
    /\ UNCHANGED << pc, request, validated, params, sent, result, thrown,
                    outcome, steps >>

\* a call-tool request arrives: const { name, arguments: args } = request.params
CallTool(s, n, a) ==
    /\ pc[s] = "idle"
    /\ request' = [request EXCEPT ![s] = [name |-> n, arguments |-> a]]
    /\ pc' = [pc EXCEPT ![s] = "dispatch"]
    /\ steps' = [steps EXCEPT ![s] = << >>]
    /\ UNCHANGED << validated, params, sent, result, thrown, outcome, listed >>

\* switch (name): a case of the catalog, or the default that throws
Dispatch(s) ==
    /\ pc[s] = "dispatch"
    /\ steps' = [steps EXCEPT ![s] = Append(@, "dispatch")]
    /\ IF request[s].name \in ToolNames
       THEN /\ pc' = [pc EXCEPT ![s] =
                        IF HasSchema(request[s].name) THEN "validate"
                        ELSE "invoke"]
            /\ UNCHANGED thrown
       ELSE /\ thrown' = [thrown EXCEPT ![s] =
                            McpError("MethodNotFound",
                                     "Unknown tool: " \o request[s].name)]
            /\ pc' = [pc EXCEPT ![s] = "catch"]
    /\ UNCHANGED << request, validated, params, sent, result, outcome, listed >>

\* const validated = Schema.parse(args)
Validate(s) ==
    /\ pc[s] = "validate"
    /\ steps' = [steps EXCEPT ![s] = Append(@, "validate")]
    /\ LET schema == SchemaOf(request[s].name)
           issues == ParseIssues(schema, request[s].arguments)
       IN  IF issues = << >>
           THEN /\ validated' = [validated EXCEPT ![s] =
                                   ParseValue(schema, request[s].arguments)]
                /\ pc' = [pc EXCEPT ![s] = "map"]
                /\ UNCHANGED thrown
           ELSE /\ thrown' = [thrown EXCEPT ![s] = ZodError(issues)]
                /\ pc' = [pc EXCEPT ![s] = "catch"]
                /\ UNCHANGED validated
    /\ UNCHANGED << request, params, sent, result, outcome, listed >>

\* variant: the mapped parameters live in one variable all invocations share
Map_Shared(s) ==
    /\ pc[s] = "map"
    /\ steps' = [steps EXCEPT ![s] = Append(@, "map")]
    /\ params' = [t \in Invocations |-> ParamsOf(request[s].name, validated[s])]
    /\ pc' = [pc EXCEPT ![s] = "invoke"]
    /\ UNCHANGED << request, validated, sent, result, thrown, outcome, listed >>

\* the case builds what it passes to the client
Map(s) ==
    /\ pc[s] = "map"
    /\ steps' = [steps EXCEPT ![s] = Append(@, "map")]
    /\ params' = [params EXCEPT ![s] = ParamsOf(request[s].name, validated[s])]
    /\ pc' = [pc EXCEPT ![s] = "invoke"]
    /\ UNCHANGED << request, validated, sent, result, thrown, outcome, listed >>

\* await client.<operation>(...): the request leaves and the handler suspends
Invoke(s) ==
    /\ pc[s] = "invoke"
    /\ steps' = [steps EXCEPT ![s] = Append(@, "invoke")]
    /\ sent' = [sent EXCEPT ![s] =
                  Append(@, ClientCall(request[s].name, params[s]))]
    /\ pc' = [pc EXCEPT ![s] = "await"]
    /\ UNCHANGED << request, validated, params, result, thrown, outcome, listed >>

\* the remote API answers with a 2xx body: return response.data
RemoteReply(s, data) ==
    /\ pc[s] = "await"
    /\ result' = [result EXCEPT ![s] = data]
    /\ pc' = [pc EXCEPT ![s] = "summarize"]
    /\ UNCHANGED << request, validated, params, sent, thrown, outcome, steps,
                    listed >>

\* the remote call fails: the awaited promise rejects with e
RemoteFail(s, e) ==
    /\ pc[s] = "await"
    /\ thrown' = [thrown EXCEPT ![s] = e]
    /\ pc' = [pc EXCEPT ![s] = "catch"]
    /\ UNCHANGED << request, validated, params, sent, result, outcome, steps,
                    listed >>

\* variant: a throw while summarising is swallowed and an empty text returned
Summarize_Swallow(s) ==
    /\ pc[s] = "summarize"
    /\ steps' = [steps EXCEPT ![s] = Append(@, "summarize")]
    /\ LET r == Summarise(request[s].name, result[s], params[s])
       IN  outcome' = [outcome EXCEPT ![s] =
                         IF r.kind = "return" THEN r
                         ELSE Returned(Text("", << >>))]
    /\ pc' = [pc EXCEPT ![s] = "done"]
    /\ UNCHANGED << request, validated, params, sent, result, thrown, listed >>

\* the rest of the case: build the summary and return the text
Summarize(s) ==
    /\ pc[s] = "summarize"
    /\ steps' = [steps EXCEPT ![s] = Append(@, "summarize")]
    /\ LET r == Summarise(request[s].name, result[s], params[s])
       IN  IF r.kind = "return"
           THEN /\ outcome' = [outcome EXCEPT ![s] = r]
                /\ pc' = [pc EXCEPT ![s] = "done"]
                /\ UNCHANGED thrown
           ELSE /\ thrown' = [thrown EXCEPT ![s] = r.error]
                /\ pc' = [pc EXCEPT ![s] = "catch"]
                /\ UNCHANGED outcome
    /\ UNCHANGED << request, validated, params, sent, result, listed >>

\* variant: a rate-limited call is issued again
Catch_Retry(s) ==
    /\ pc[s] = "catch"
    /\ steps' = [steps EXCEPT ![s] = Append(@, "catch")]
    /\ IF thrown[s].status = 429 /\ Len(sent[s]) < 2
       THEN /\ pc' = [pc EXCEPT ![s] = "invoke"]
            /\ UNCHANGED outcome
       ELSE /\ outcome' = [outcome EXCEPT ![s] = Threw(CatchBlock(thrown[s]))]
            /\ pc' = [pc EXCEPT ![s] = "done"]
    /\ UNCHANGED << request, validated, params, sent, result, thrown, listed >>

\* catch (error): rethrow as an McpError
Catch(s) ==
    /\ pc[s] = "catch"
    /\ steps' = [steps EXCEPT ![s] = Append(@, "catch")]
    /\ outcome' = [outcome EXCEPT ![s] = Threw(CatchBlock(thrown[s]))]
    /\ pc' = [pc EXCEPT ![s] = "done"]
    /\ UNCHANGED << request, validated, params, sent, result, thrown, listed >>

\* the outcome reaches the caller; the call's locals are gone
Respond(s) ==
    /\ pc[s] = "done"
    /\ pc' = [pc EXCEPT ![s] = "idle"]
    /\ request' = [request EXCEPT ![s] = NoRequest]
    /\ validated' = [validated EXCEPT ![s] = Undefined]
    /\ params' = [params EXCEPT ![s] = Undefined]
    /\ sent' = [sent EXCEPT ![s] = << >>]
    /\ result' = [result EXCEPT ![s] = Undefined]
    /\ thrown' = [thrown EXCEPT ![s] = NoError]
    /\ outcome' = [outcome EXCEPT ![s] = NoOutcome]
    /\ steps' = [steps EXCEPT ![s] = << >>]
    /\ UNCHANGED listed

Step(s) ==
    \/ \E n \in RequestNames : \E a \in ArgsFor(n) : CallTool(s, n, a)
    \/ Dispatch(s)
    \/ Validate(s)
    \/ Map(s)
    \/ Invoke(s)
    \/ \E data \in PayloadsFor(request[s].name) : RemoteReply(s, data)
    \/ \E e \in RemoteFailures : RemoteFail(s, e)
    \/ Summarize(s)
    \/ Catch(s)
    \/ Respond(s)

\* the call-tool handler, one invocation at a time
Next == \E s \in Sequential : Step(s)

Spec == Init /\ [][Next]_vars

(***************************************************************************)
(* Interleaved invocations.  The host may deliver a second request while    *)
(* the first is suspended at its await, and a listing request at any time.  *)
(* The handler runs without a break between two awaits; stepping the two    *)
(* invocations statement by statement allows every such schedule and more.  *)
(***************************************************************************)
\* the requests of the interleaved runs: a few of each kind of path
ConcurrentRequests ==
    {[name |-> "apollo_search_people",
      arguments |-> Obj([keywords |-> Str("cto")])],
     [name |-> "apollo_enrich_organization",
      arguments |-> Obj([domain |-> Str("apollo.io")])],
     [name |-> "apollo_enrich_organization", arguments |-> EmptyObj],
     [name |-> "apollo_get_email_message_activities",
      arguments |-> Obj([message_id |-> Str("m1")])],
     [name |-> "apollo_get_email_accounts", arguments |-> Undefined],
     [name |-> "apollo_delete_everything", arguments |-> Undefined]}

\* the bodies the remote API answers them with
ConcurrentPayloads(n) ==
    {Null} \cup
    CASE n = "apollo_search_people" ->
           {Obj([people |-> Arr(<< PersonAt(1), PersonAt(2) >>),
                 pagination |-> Obj([page |-> Num(1),
                                     total_entries |-> Num(42)])])}
      [] n = "apollo_enrich_organization" ->
           {EmptyObj, Obj([organization |-> OrganizationAt(1)])}
      [] n = "apollo_get_email_message_activities" ->
           {Obj([emailer_touches |->
                   Arr(<< TouchOf("opened"), TouchOf("replied") >>)])}
      [] OTHER ->
           {Obj([email_accounts |-> Arr(<< AccountAt(1) >>)])}

ConcurrentFailures == {AxiosError(401), AxiosError(429)}

ConcurrentStep(s) ==
    \/ \E r \in ConcurrentRequests : CallTool(s, r.name, r.arguments)
    \/ Dispatch(s)
    \/ Validate(s)
    \/ Map(s)
    \/ Invoke(s)
    \/ \E data \in ConcurrentPayloads(request[s].name) : RemoteReply(s, data)
    \/ \E e \in ConcurrentFailures : RemoteFail(s, e)
    \/ Summarize(s)
    \/ Catch(s)
    \/ Respond(s)

\* both handlers of the server, invocations interleaved
NextInterleaved ==
    \/ ListTools
    \/ \E s \in Invocations : ConcurrentStep(s)

SpecInterleaved == Init /\ [][NextInterleaved]_vars

(***************************************************************************)
(* Properties.                                                              *)
(***************************************************************************)
Done(s) == pc[s] = "done"
Failed(s) == outcome[s].kind = "throw"
Succeeded(s) == outcome[s].kind = "return"

ApiKeyMessage ==
    "Invalid Apollo API key. Check your APOLLO_API_KEY environment variable."
RateLimitMessage ==
    "Apollo API rate limit exceeded. Please wait and try again."
FallbackMessage == "An unexpected error occurred"

\* the arguments of s pass the tool's schema (a tool without schema parses
\* nothing)
PassesValidation(s) ==
    /\ request[s].name \in ToolNames
    /\ HasSchema(request[s].name) =>
         ParseIssues(SchemaOf(request[s].name), request[s].arguments) = << >>

\* the invocation failed in its validate step
ValidationFailed(s) == steps[s] = << "dispatch", "validate", "catch" >>

\* C1: a tool name outside the catalog fails with a MethodNotFound error
\* that carries the name, and no remote call is made.
C1_UnknownToolIsMethodNotFound ==
    \A s \in Invocations :
      (Done(s) /\ request[s].name \notin ToolNames) =>
        /\ Failed(s)
        /\ outcome[s].error.code = "MethodNotFound"
        /\ outcome[s].error.message = "Unknown tool: " \o request[s].name
        /\ sent[s] = << >>

\* C2: a failed invocation is classified as invalid parameters for a schema
\* failure, else invalid credentials (fixed message) for status 401, else
\* rate limit (fixed message) for status 429, else a generic internal error;
\* one error per failed invocation.
C2_ErrorClassification ==
    \A s \in Invocations :
      (Done(s) /\ Failed(s)) =>
        LET e == outcome[s].error
        IN  /\ e.class = "McpError"
            /\ ~Succeeded(s)
            /\ IF ValidationFailed(s)
               THEN /\ e.code = "InvalidParams"
                    /\ sent[s] = << >>
               ELSE IF thrown[s].status = 401
               THEN e.code = "InvalidRequest" /\ e.message = ApiKeyMessage
               ELSE IF thrown[s].status = 429
               THEN e.code = "InternalError" /\ e.message = RateLimitMessage
               ELSE /\ e.code = "InternalError"
                    /\ e.message \notin {ApiKeyMessage, RateLimitMessage}

C2_Witness ==
    \E s \in Invocations :
      /\ Done(s) /\ Failed(s)
      /\ thrown[s].status = 401
      /\ outcome[s].error.code = "InvalidRequest"
      /\ Len(sent[s]) = 1

\* C3: a failure that is neither a validation failure nor a 401/429 response
\* yields an internal error whose message is the underlying error's message
\* ("boom" for "boom"), or the fixed fallback when there is no message.
C3_InternalErrorMessage ==
    \A s \in Invocations :
      (Done(s) /\ Failed(s) /\ ~ValidationFailed(s)
         /\ thrown[s].status \notin {401, 429}) =>
        /\ outcome[s].error.code = "InternalError"
        /\ thrown[s].message = "boom" => outcome[s].error.message = "boom"
        /\ thrown[s].message # "" =>
             outcome[s].error.message = thrown[s].message
        /\ thrown[s].message = "" =>
             outcome[s].error.message = FallbackMessage

C3_Witness ==
    \E s \in Invocations :
      /\ Done(s) /\ Failed(s)
      /\ thrown[s] = NetworkError("boom")
      /\ outcome[s].error.message = "boom"

\* the place of a step in the order dispatch, validate, map, invoke,
\* summarize (catch ends a failed invocation)
StepRank(x) ==
    CASE x = "dispatch" -> 1
      [] x = "validate" -> 2
      [] x = "map" -> 3
      [] x = "invoke" -> 4
      [] x = "summarize" -> 5
      [] OTHER -> 6

\* C4: the steps of an invocation come in the order dispatch, validate, map,
\* invoke, summarize; the remote API is called only after validation passed,
\* exactly once per invocation that passed validation (also after a 401, 429
\* or other transport failure) and never when validation fails.
C4_InvokeOnceAfterValidation ==
    \A s \in Invocations :
      /\ steps[s] # << >> => steps[s][1] = "dispatch"
      /\ \A i \in 1..Len(steps[s]) : \A j \in 1..Len(steps[s]) :
           i < j => StepRank(steps[s][i]) < StepRank(steps[s][j])
      /\ Len(sent[s]) <= 1
      /\ Len(sent[s]) = 1 =>
           /\ PassesValidation(s)
           /\ HasSchema(request[s].name) => validated[s].kind = "object"
      /\ (Done(s) /\ PassesValidation(s)) => Len(sent[s]) = 1
      /\ (Done(s) /\ ~PassesValidation(s)) => sent[s] = << >>

C4_Witness ==
    \E s \in Invocations :
      /\ Done(s)
      /\ thrown[s].status = 429
      /\ steps[s] = << "dispatch", "validate", "map", "invoke", "catch" >>
      /\ Len(sent[s]) = 1

\* the tools whose request carries a body built from the arguments
MappedTools ==
    {"apollo_search_people", "apollo_enrich_person",
     "apollo_enrich_organization", "apollo_search_organizations",
     "apollo_search_sequences"}

\* the documented name of argument k in the request of tool n
Renamed(n, k) ==
    CASE n = "apollo_search_people" /\ k = "keywords" -> "q_keywords"
      [] n = "apollo_search_people" /\ k = "titles" -> "person_titles"
      [] n = "apollo_search_people" /\ k = "locations" -> "person_locations"
      [] n = "apollo_search_organizations" /\ k = "keywords" -> "q_keywords"
      [] n = "apollo_search_organizations" /\ k = "locations" ->
           "organization_locations"
      [] n = "apollo_search_organizations" /\ k = "employee_ranges" ->
           "organization_num_employees_ranges"
      [] OTHER -> k

\* the request body holding the fields keys of v under their renames
RenamedCopy(n, v, keys) ==
    Obj([j \in {Renamed(n, k) : k \in keys} |->
           v.val[CHOOSE k \in keys : Renamed(n, k) = j]])

\* C5 as stated: the request parameters hold exactly the fields present in
\* the validated arguments, under their renames.
C5_ExactlyPresentFields ==
    \A s \in Invocations :
      (Len(sent[s]) = 1 /\ request[s].name \in MappedTools) =>
        sent[s][1].body =
          RenamedCopy(request[s].name, validated[s], DOMAIN validated[s].val)

\* the validated fields the mapping copies: page, per_page, the required
\* domain, and every other field that is not the empty string
CopiedFields(n, v) ==
    {k \in DOMAIN v.val :
       \/ k \in {"page", "per_page"}
       \/ n = "apollo_enrich_organization"
       \/ v.val[k] # Str("")}

\* C5 amended: the request parameters hold, under their renames, exactly
\* the validated fields other than optional fields given as the empty
\* string; an absent optional field is never sent in any form.
C5_PresentNonEmptyFields ==
    \A s \in Invocations :
      (Len(sent[s]) = 1 /\ request[s].name \in MappedTools) =>
        /\ sent[s][1].body =
             RenamedCopy(request[s].name, validated[s],
                         CopiedFields(request[s].name, validated[s]))
        /\ \A k \in ToolDef(request[s].name).properties :
             Get(request[s].arguments, k).kind = "undefined"
               /\ k \notin {"page", "per_page"} =>
                 Renamed(request[s].name, k) \notin DOMAIN sent[s][1].body.val

C5_Witness ==
    \E s \in Invocations :
      /\ Len(sent[s]) = 1
      /\ request[s].name = "apollo_search_people"
      /\ Get(validated[s], "keywords") = Str("")
      /\ Get(validated[s], "titles").kind = "array"
      /\ DOMAIN sent[s][1].body.val = {"page", "per_page", "person_titles"}

\* the key of the primary entity in an enrichment payload
EntityKey(n) ==
    IF n = "apollo_enrich_person" THEN "person" ELSE "organization"

NotFoundSentence(n) ==
    IF n = "apollo_enrich_person"
    THEN "No person found with the provided information."
    ELSE "No organization found with the provided domain."

EnrichTools == {"apollo_enrich_person", "apollo_enrich_organization"}

\* the remote call of s succeeded with a JSON object that has no primary
\* entity
EntityMissing(s) ==
    /\ request[s].name \in EnrichTools
    /\ "summarize" \in {steps[s][i] : i \in 1..Len(steps[s])}
    /\ result[s].kind = "object"
    /\ Get(result[s], EntityKey(request[s].name)).kind \in {"undefined", "null"}

\* C6: an enrichment whose remote call succeeds without a primary entity
\* ends as a success whose text is the fixed not-found sentence alone, with
\* no summary and no "Full data" section; it is not an error.
C6_NotFoundIsSuccess ==
    \A s \in Invocations :
      (Done(s) /\ EntityMissing(s)) =>
        /\ Succeeded(s)
        /\ ~Failed(s)
        /\ thrown[s] = NoError
        /\ outcome[s].text = Text(NotFoundSentence(request[s].name), << >>)

C6_Witness ==
    \E s \in Invocations :
      /\ Done(s)
      /\ request[s].name = "apollo_enrich_organization"
      /\ result[s] = EmptyObj
      /\ outcome[s].text.line = "No organization found with the provided domain."
      /\ outcome[s].text.sections = << >>

\* C7: every successful response other than the two not-found responses has
\* a summary section and a "Full data" section, also for an empty remote
\* result, and "Full data" is the whole remote response, unmodified.
C7_SummaryAndFullData ==
    \A s \in Invocations :
      (Done(s) /\ Succeeded(s) /\ ~EntityMissing(s)) =>
        LET sec == outcome[s].text.sections
        IN  /\ Len(sec) = 2
            /\ sec[1].header # "Full data:"
            /\ sec[1].json.kind \in {"object", "array"}
            /\ sec[2].header = "Full data:"
            /\ sec[2].json = result[s]

C7_Witness ==
    \E s \in Invocations :
      /\ Done(s) /\ Succeeded(s)
      /\ request[s].name = "apollo_search_people"
      /\ result[s].kind = "object"
      /\ Get(result[s], "people").kind = "array"
      /\ Len(Get(result[s], "people").val) > TopResults
      /\ outcome[s].text.sections[2].json = result[s]

\* the same for an empty remote result
C7_EmptyWitness ==
    \E s \in Invocations :
      /\ Done(s) /\ Succeeded(s)
      /\ request[s].name = "apollo_get_email_accounts"
      /\ result[s] = EmptyObj
      /\ outcome[s].text.sections =
           << Section("Accounts:", Arr(<< >>)), Section("Full data:", EmptyObj) >>

PagedTools ==
    {"apollo_search_people", "apollo_search_organizations",
     "apollo_search_sequences"}

\* the per_page the specification documents for an omitted per_page
DocumentedPerPage(n) == IF n = "apollo_search_sequences" THEN 25 ELSE 10

\* C8: with page / per_page omitted, the validated parameters and the
\* request carry page 1 and per_page 10 (people, organizations) or 25
\* (sequences); supplied values are sent unchanged.
C8_PaginationDefaults ==
    \A s \in Invocations :
      (Len(sent[s]) = 1 /\ request[s].name \in PagedTools) =>
        LET a == request[s].arguments
            body == sent[s][1].body
        IN  /\ Get(validated[s], "page") = Get(body, "page")
            /\ Get(validated[s], "per_page") = Get(body, "per_page")
            /\ Get(body, "page") =
                 IF Get(a, "page").kind = "undefined" THEN Num(1)
                 ELSE Get(a, "page")
            /\ Get(body, "per_page") =
                 IF Get(a, "per_page").kind = "undefined"
                 THEN Num(DocumentedPerPage(request[s].name))
                 ELSE Get(a, "per_page")

C8_Witness ==
    \E s \in Invocations :
      /\ Len(sent[s]) = 1
      /\ request[s].name = "apollo_search_sequences"
      /\ request[s].arguments = EmptyObj
      /\ sent[s][1].body = Obj([page |-> Num(1), per_page |-> Num(25)])

\* the same for supplied values
C8_SuppliedWitness ==
    \E s \in Invocations :
      /\ Len(sent[s]) = 1
      /\ request[s].name = "apollo_search_people"
      /\ Get(request[s].arguments, "page") = Num(0)
      /\ Get(request[s].arguments, "per_page") = Num(50)
      /\ Get(sent[s][1].body, "page") = Num(0)
      /\ Get(sent[s][1].body, "per_page") = Num(50)

\* a minimal valid argument set of tool n per its catalog entry: the
\* required fields alone, as strings; or no arguments at all when nothing is
\* required
MinimalArgs(n, a) ==
    \/ /\ a.kind = "object"
       /\ DOMAIN a.val = ToolDef(n).required
       /\ \A k \in DOMAIN a.val : a.val[k].kind = "string"
    \/ /\ a.kind = "undefined"
       /\ ToolDef(n).required = {}

\* C9: for every tool of the catalog, a minimal valid argument set (also no
\* arguments object at all for a tool without required fields) does not
\* fail with a validation error.
C9_MinimalArgsPassValidation ==
    \A s \in Invocations :
      (Done(s) /\ request[s].name \in ToolNames
         /\ MinimalArgs(request[s].name, request[s].arguments)) =>
        ~(Failed(s) /\ outcome[s].error.code = "InvalidParams")

\* C10: apollo_enrich_organization fails validation, without a remote call,
\* when domain is missing; any non-empty string domain passes validation and
\* is sent to the remote API as it is.
C10_DomainRequiredAnyFormat ==
    \A s \in Invocations :
      (Done(s) /\ request[s].name = "apollo_enrich_organization") =>
        LET d == Get(request[s].arguments, "domain")
        IN  /\ d.kind = "undefined" =>
                 /\ Failed(s)
                 /\ outcome[s].error.code = "InvalidParams"
                 /\ sent[s] = << >>
            /\ (d.kind = "string" /\ d.val # "") =>
                 /\ ~ValidationFailed(s)
                 /\ Len(sent[s]) = 1
                 /\ sent[s][1].path = "/organizations/enrich"
                 /\ sent[s][1].body = Obj([domain |-> d])

C10_Witness ==
    \E s \in Invocations :
      /\ Done(s)
      /\ request[s].name = "apollo_enrich_organization"
      /\ Get(request[s].arguments, "domain") = Str("not a domain")
      /\ sent[s] = << enrichOrganization(Str("not a domain")) >>

\* the same for a missing domain
C10_MissingWitness ==
    \E s \in Invocations :
      /\ Done(s)
      /\ request[s].name = "apollo_enrich_organization"
      /\ request[s].arguments = EmptyObj
      /\ outcome[s].error.code = "InvalidParams"
      /\ outcome[s].error.message = "Invalid parameters: Required"

\* the codes of a structured tool-call error
ErrorCodes == {"MethodNotFound", "InvalidParams", "InvalidRequest", "InternalError"}

\* the remote body of s cannot be summarised: it is null, or its list is not
\* an array of entries
UnexpectedShape(s) ==
    /\ result[s].kind # "undefined"
    /\ \/ result[s].kind # "object"
       \/ \E k \in {"people", "organizations", "emailer_campaigns",
                    "email_accounts", "emailer_touches"} :
            /\ Get(result[s], k).kind \notin {"undefined", "array"}
            /\ request[s].name \notin EnrichTools
       \/ \E k \in {"people", "organizations", "emailer_campaigns",
                    "email_accounts"} :
            /\ Get(result[s], k).kind = "array"
            /\ \E i \in 1..Len(Get(result[s], k).val) :
                 Get(result[s], k).val[i].kind = "null"

\* C11: every invocation ends in exactly one outcome, a successful text or a
\* structured error; a failure at dispatch, validation, the remote call or
\* while summarising an unexpected payload is reported as a structured
\* error, never as a successful or partial response, and is not swallowed.
C11_OneOutcomeFailuresReported ==
    \A s \in Invocations :
      /\ outcome[s].kind \in {"none", "return", "throw"}
      /\ Done(s) <=> outcome[s].kind # "none"
      /\ pc[s] \in {"idle", "dispatch", "validate", "map", "invoke", "await",
                  "summarize", "catch", "done"}
      /\ thrown[s] # NoError <=> (pc[s] = "catch" \/ (Done(s) /\ Failed(s)))
      /\ Done(s) =>
           /\ Failed(s) <=> thrown[s] # NoError
           /\ request[s].name \notin ToolNames => Failed(s)
           /\ ~PassesValidation(s) => Failed(s)
           /\ (sent[s] # << >> /\ result[s].kind = "undefined") => Failed(s)
           /\ UnexpectedShape(s) => Failed(s)
      /\ Failed(s) =>
           /\ outcome[s].error.class = "McpError"
           /\ outcome[s].error.code \in ErrorCodes
           /\ outcome[s].error.message # ""
           /\ outcome[s].text = Text("", << >>)
      /\ Succeeded(s) =>
           /\ outcome[s].error = NoError
           /\ outcome[s].text.line # ""
           /\ Len(sent[s]) = 1
           /\ result[s].kind = "object"

\* a null body makes the summary throw; the caller gets an internal error
C11_Witness ==
    \E s \in Invocations :
      /\ Done(s)
      /\ steps[s] = << "dispatch", "invoke", "summarize", "catch" >>
      /\ result[s] = Null
      /\ thrown[s] = TypeError
      /\ Failed(s)
      /\ outcome[s].error.code = "InternalError"

\* the invocation returned the summary of an enriched organization
OrganizationEnriched(s) ==
    /\ Done(s) /\ Succeeded(s) /\ ~EntityMissing(s)
    /\ request[s].name = "apollo_enrich_organization"

\* C12: in the organization-enrichment summary, technologies is the first 10
\* entries of the remote current_technologies list, in their order, when the
\* list has more than 10 entries, and the whole list, in its order, when it
\* has 10 or fewer.
C12_TechnologiesFirstTen ==
    \A s \in Invocations :
      (/\ OrganizationEnriched(s)
       /\ Get(Get(result[s], "organization"), "current_technologies").kind
            = "array") =>
        LET t == Get(Get(result[s], "organization"), "current_technologies").val
            out == Get(outcome[s].text.sections[1].json, "technologies")
        IN  /\ out.kind = "array"
            /\ Len(t) > 10 => out.val = [i \in 1..10 |-> t[i]]
            /\ Len(t) <= 10 => out.val = t

\* a list of more than 10 technologies is cut to its first 10
C12_Witness ==
    \E s \in Invocations :
      /\ OrganizationEnriched(s)
      /\ Get(Get(result[s], "organization"), "current_technologies").kind = "array"
      /\ Len(Get(Get(result[s], "organization"), "current_technologies").val) > 10
      /\ Len(Get(outcome[s].text.sections[1].json, "technologies").val) = 10

\* a list of exactly 10 technologies is kept whole
C12_WholeWitness ==
    \E s \in Invocations :
      /\ OrganizationEnriched(s)
      /\ Get(Get(result[s], "organization"), "current_technologies") = TechList(10)
      /\ Get(outcome[s].text.sections[1].json, "technologies") = TechList(10)

\* the entity has the field: a string that is not blank
HasField(e, k) == Get(e, k).kind = "string" /\ Get(e, k).val # ""

\* the location the summary of entity e should show
ExpectedLocation(e) ==
    IF HasField(e, "city") /\ HasField(e, "state")
    THEN Str(Get(e, "city").val \o ", " \o Get(e, "state").val)
    ELSE Get(e, "country")

\* the remote list of a search and the single entity of an enrichment
SearchListKey(n) ==
    IF n = "apollo_search_people" THEN "people" ELSE "organizations"

SearchTools == {"apollo_search_people", "apollo_search_organizations"}

\* the invocation returned a summary of the entities of a search
Searched(s) ==
    /\ Done(s) /\ Succeeded(s)
    /\ request[s].name \in SearchTools
    /\ Get(result[s], SearchListKey(request[s].name)).kind = "array"

\* the invocation returned a summary of an enriched entity
Enriched(s) ==
    /\ Done(s) /\ Succeeded(s) /\ ~EntityMissing(s)
    /\ request[s].name \in EnrichTools

\* C13: in every summary with a location (people search, person enrichment,
\* organization search, organization enrichment) location is "city, state"
\* when the entity has both a city and a state, and the entity's country in
\* every other case.
C13_LocationCityStateOrCountry ==
    \A s \in Invocations :
      /\ Searched(s) =>
           LET list == Get(result[s], SearchListKey(request[s].name)).val
               summary == outcome[s].text.sections[1].json.val
           IN  \A i \in 1..Len(summary) :
                 Get(summary[i], "location") = ExpectedLocation(list[i])
      /\ Enriched(s) =>
           Get(outcome[s].text.sections[1].json, "location")
             = ExpectedLocation(Get(result[s], EntityKey(request[s].name)))

\* a person with a city and a state, and an organization with a state only
C13_Witness ==
    \E s \in Invocations :
      /\ Searched(s)
      /\ LET summary == outcome[s].text.sections[1].json.val
         IN  /\ Len(summary) >= 2
             /\ Get(summary[1], "location") = Str("San Francisco, California")
             /\ Get(summary[2], "location") \in {Str("France"), Str("United States")}

\* an entity whose city is blank shows its country
C13_BlankCityWitness ==
    \E s \in Invocations :
      /\ Enriched(s)
      /\ Get(Get(result[s], EntityKey(request[s].name)), "city") = Str("")
      /\ Get(Get(result[s], EntityKey(request[s].name)), "state") = Str("Texas")
      /\ Get(outcome[s].text.sections[1].json, "location") = Str("United States")

\* the remote pagination.total_entries, 0 when it is absent
TotalEntries(r) ==
    IF Get(r, "pagination").kind = "object"
       /\ Get(Get(r, "pagination"), "total_entries").kind = "number"
    THEN Get(Get(r, "pagination"), "total_entries").val
    ELSE 0

SearchNoun(n) ==
    IF n = "apollo_search_people" THEN "people" ELSE "organizations"

Min(a, b) == IF a < b THEN a ELSE b

\* C15: for the people and organization searches the count line reports the
\* remote pagination.total_entries, or 0 when it is absent, whatever the
\* number n of results in the payload, and the summary holds the first
\* min(5, n) of the returned results, in their order.
C15_CountLineAndTopFive ==
    \A s \in Invocations :
      Searched(s) =>
        LET list == Get(result[s], SearchListKey(request[s].name)).val
            summary == outcome[s].text.sections[1].json
        IN  /\ outcome[s].text.line =
                 "Found " \o ToString(TotalEntries(result[s])) \o " "
                          \o SearchNoun(request[s].name)
            /\ summary.kind = "array"
            /\ Len(summary.val) = Min(5, Len(list))
            /\ \A i \in 1..Len(summary.val) :
                 Get(summary.val[i], "name") = Get(list[i], "name")

\* six results and a total of 42: the line says 42, the summary holds five
C15_Witness ==
    \E s \in Invocations :
      /\ Searched(s)
      /\ request[s].name = "apollo_search_organizations"
      /\ Len(Get(result[s], "organizations").val) = 6
      /\ outcome[s].text.line = "Found 42 organizations"
      /\ Len(outcome[s].text.sections[1].json.val) = 5

\* results but no total: the line says 0
C15_AbsentTotalWitness ==
    \E s \in Invocations :
      /\ Searched(s)
      /\ request[s].name = "apollo_search_people"
      /\ Get(result[s], "pagination") = Obj([page |-> Num(1)])
      /\ Len(Get(result[s], "people").val) = 3
      /\ outcome[s].text.line = "Found 0 people"
      /\ Len(outcome[s].text.sections[1].json.val) = 3

\* the invocation returned the summary of a message's activities
ActivitiesSummarised(s) ==
    /\ Done(s) /\ Succeeded(s)
    /\ request[s].name = "apollo_get_email_message_activities"

\* the touches the remote API returned, none when the list is absent
Touches(r) ==
    IF Get(r, "emailer_touches").kind = "array"
    THEN Get(r, "emailer_touches").val ELSE << >>

\* the number of touches of q whose touch_type is exactly t
TouchesOfType(q, t) ==
    Cardinality({i \in 1..Len(q) :
                   /\ Get(q[i], "touch_type").kind = "string"
                   /\ Get(q[i], "touch_type").val = t})

\* C16: the message-activities summary echoes the input message_id,
\* total_activities is the number of returned touches (0 when the list is
\* absent), opens / clicks / replies are the numbers of touches whose
\* touch_type is exactly opened / clicked / replied, activities has one entry
\* per touch in the original order, and so opens + clicks + replies never
\* exceeds total_activities.
C16_ActivityCounts ==
    \A s \in Invocations :
      ActivitiesSummarised(s) =>
        LET q == Touches(result[s])
            summary == outcome[s].text.sections[1].json
            out == Get(summary, "activities")
        IN  /\ Get(summary, "message_id") = Get(request[s].arguments, "message_id")
            /\ Get(summary, "total_activities") = Num(Len(q))
            /\ Get(summary, "opens") = Num(TouchesOfType(q, "opened"))
            /\ Get(summary, "clicks") = Num(TouchesOfType(q, "clicked"))
            /\ Get(summary, "replies") = Num(TouchesOfType(q, "replied"))
            /\ out.kind = "array"
            /\ Len(out.val) = Len(q)
            /\ \A i \in 1..Len(q) :
                 /\ Get(out.val[i], "type") = Get(q[i], "touch_type")
                 /\ Get(out.val[i], "created_at") = Get(q[i], "created_at")
            /\ Get(summary, "opens").val + Get(summary, "clicks").val
                 + Get(summary, "replies").val
                 <= Get(summary, "total_activities").val

\* three touches, one opened, one of another case, one bounced
C16_Witness ==
    \E s \in Invocations :
      /\ ActivitiesSummarised(s)
      /\ Touches(result[s]) = << TouchOf("opened"), TouchOf("Opened"),
                                 TouchOf("bounced") >>
      /\ LET summary == outcome[s].text.sections[1].json
         IN  /\ Get(summary, "message_id") = Str("m1")
             /\ Get(summary, "total_activities") = Num(3)
             /\ Get(summary, "opens") = Num(1)
             /\ Get(summary, "clicks") = Num(0)
             /\ Get(summary, "replies") = Num(0)

\* no list of touches in the payload: every count is 0
C16_AbsentWitness ==
    \E s \in Invocations :
      /\ ActivitiesSummarised(s)
      /\ result[s] = EmptyObj
      /\ Get(outcome[s].text.sections[1].json, "total_activities") = Num(0)
      /\ Get(outcome[s].text.sections[1].json, "activities") = Arr(<< >>)

\* what the handler, run alone, makes of tool name n, arguments a and the
\* remote response: body data, or failure e when failed
AloneParams(n, a) ==
    IF HasSchema(n) THEN ParamsOf(n, ParseValue(SchemaOf(n), a)) ELSE Undefined

AloneOutcome(n, a, failed, data, e) ==
    IF n \notin ToolNames
    THEN Threw(CatchBlock(McpError("MethodNotFound", "Unknown tool: " \o n)))
    ELSE IF HasSchema(n) /\ ParseIssues(SchemaOf(n), a) # << >>
    THEN Threw(CatchBlock(ZodError(ParseIssues(SchemaOf(n), a))))
    ELSE IF failed
    THEN Threw(CatchBlock(e))
    ELSE LET r == Summarise(n, data, AloneParams(n, a))
         IN  IF r.kind = "return" THEN r ELSE Threw(CatchBlock(r.error))

\* the remote call of s was rejected
RemoteFailed(s) == sent[s] # << >> /\ result[s] = Undefined

CatalogNames ==
    << "apollo_search_people", "apollo_enrich_person",
       "apollo_enrich_organization", "apollo_search_organizations",
       "apollo_search_sequences", "apollo_get_email_accounts",
       "apollo_get_email_message_activities" >>

\* C14: invocations share no mutable state: however two invocations are
\* interleaved, the request each sends and the outcome each ends in are
\* those of its own tool name, arguments and remote response, as when it
\* runs alone; the catalog the listing returns is the same, in the same
\* order, before, during and after any invocation.
C14_InvocationsIndependent ==
    /\ \A s \in Invocations :
         /\ (sent[s] # << >>) =>
              sent[s] = << ClientCall(request[s].name,
                                      AloneParams(request[s].name,
                                                  request[s].arguments)) >>
         /\ Done(s) =>
              outcome[s] = AloneOutcome(request[s].name, request[s].arguments,
                                        RemoteFailed(s), result[s], thrown[s])
         /\ pc[s] = "idle" => outcome[s] = NoOutcome
    /\ listed # << >> =>
         /\ listed = Tools
         /\ [i \in 1..Len(listed) |-> listed[i].name] = CatalogNames

\* one invocation has finished while the other, of another tool, is still
\* waiting for its reply, and the catalog has been listed
C14_Witness ==
    /\ pc["c1"] = "done" /\ Succeeded("c1")
    /\ request["c1"].name = "apollo_search_people"
    /\ pc["c2"] = "await"
    /\ request["c2"].name = "apollo_enrich_organization"
    /\ sent["c2"] = << enrichOrganization(Str("apollo.io")) >>
    /\ listed = Tools

\* both have finished, one with its text and one with its error
C14_BothDoneWitness ==
    /\ Done("c1") /\ Done("c2")
    /\ Succeeded("c1") /\ Failed("c2")
    /\ request["c1"].name = "apollo_get_email_message_activities"
    /\ request["c2"].name = "apollo_enrich_organization"
    /\ outcome["c2"].error.message = ApiKeyMessage

=============================================================================
